---- MODULE Spec2Model ----
(***************************************************************************)
(* The storage layer of b: four backends (filesystem, object storage,      *)
(* relational, networked KV) behind one SaveTTL / Retrieve / Delete        *)
(* contract, with the TTL wire format the filesystem backend embeds.       *)
(*                                                                         *)
(* One backend is under test in a behaviour (as in apptest.TestBackend     *)
(* and apptest.TestFastBackend, which receive the backend b).  Time is a   *)
(* wall clock counted in ticks; every operation reads it.                  *)
(***************************************************************************)
EXTENDS Integers, Sequences, FiniteSets, TLC

\* ------------------------------------------------------------------ bounds
MaxTime == 3        \* the clock stops after this many ticks
MaxTTL == 1         \* the longest ttl a caller passes, in ticks
MaxLen == 1         \* the longest payload, in bytes
TicksPerSec == 4    \* clock resolution: ticks in one second
NumCallers == 3     \* callers that call the backend at the same time
MaxCopied == 3      \* bytes of a never-ending source that are kept track of
NumRequests == 2    \* requests the file service handles at the same time

Ids == {"a"}
PayloadBytes == {1, 2}
Backends == {"file", "s3", "sqlite", "redis"}

RECURSIVE SeqsUpTo(_)
SeqsUpTo(n) ==
    IF n = 0 THEN {<<>>}
    ELSE LET shorter == SeqsUpTo(n - 1)
         IN shorter \cup {Append(s, b) : s \in {x \in shorter : Len(x) = n - 1}, b \in PayloadBytes}

Payloads == SeqsUpTo(MaxLen)
TTLs == 0..MaxTTL

\* the context of a streaming save: never cancelled, or cancelled once
\* `cancel` bytes of the source have been read
NoCancel == 0 - 1
Cancels(p) == {NoCancel} \cup 0..Len(p)

\* ------------------------------------------------------- time (package time)
NsPerSec == 1000 * 1000 * 1000
NsPerTick == NsPerSec \div TicksPerSec

\* time.Time as seconds and nanoseconds; the zero Time precedes every clock value
ZeroTime == [sec |-> 0 - 1, nsec |-> 0]
IsZero(t) == t = ZeroTime
TimeOf(tick) == [sec |-> tick \div TicksPerSec, nsec |-> (tick % TicksPerSec) * NsPerTick]
\* time.Duration of a ttl given in ticks, in nanoseconds
Duration(ticks) == ticks * NsPerTick

Add(t, d) ==
    LET ns == t.nsec + (d % NsPerSec)
    IN [sec |-> t.sec + (d \div NsPerSec) + (ns \div NsPerSec), nsec |-> ns % NsPerSec]
After(t, u) == t.sec > u.sec \/ (t.sec = u.sec /\ t.nsec > u.nsec)
Before(t, u) == t.sec < u.sec \/ (t.sec = u.sec /\ t.nsec < u.nsec)

\* ------------------------------------------------- byte order (encoding/binary)
RECURSIVE LittleEndian(_, _)
LittleEndian(n, k) == IF k = 0 THEN <<>> ELSE <<n % 256>> \o LittleEndian(n \div 256, k - 1)

RECURSIVE FromLittleEndian(_)
FromLittleEndian(s) == IF s = <<>> THEN 0 ELSE Head(s) + 256 * FromLittleEndian(Tail(s))

Reverse(s) == [j \in 1..Len(s) |-> s[Len(s) + 1 - j]]
BigEndian(n, k) == Reverse(LittleEndian(n, k))
FromBigEndian(s) == FromLittleEndian(Reverse(s))

Zeros(k) == [j \in 1..k |-> 0]

\* time.Time.MarshalBinary of a UTC time: version 1, 8 bytes of seconds,
\* 4 bytes of nanoseconds, zone offset -1 (UTC) in 2 bytes
MarshalBinary(t) ==
    <<1>> \o BigEndian(t.sec, 8) \o BigEndian(t.nsec, 4) \o <<255, 255>>
UnmarshalBinary(b) ==
    IF Len(b) = 0 \/ b[1] # 1 \/ Len(b) # 15
    THEN [err |-> TRUE, t |-> ZeroTime]
    ELSE [err |-> FALSE,
          t |-> [sec |-> FromBigEndian(SubSeq(b, 2, 9)), nsec |-> FromBigEndian(SubSeq(b, 10, 13))]]

\* ------------------------------------------------ TTL wire format (app/ttl.go)
headerSize == 32
versionByte == 0
createdStart == 1
createdEnd == 16
ttlStart == 16
ttlEnd == 24

\* head[lo:hi] of a Go slice, as a 1-based sequence
Slice(s, lo, hi) == SubSeq(s, lo + 1, hi)

\* mutant: the creation time is not copied into the header
WriteTTL_NoCreated(ttl, t) ==
    LET le == LittleEndian(ttl, 8)
    IN [j \in 1..headerSize |->
          IF ttlStart <= j - 1 /\ j - 1 < ttlEnd THEN le[j - ttlStart] ELSE 0]

\* WriteTTL: the header written at time t for a ttl in nanoseconds
WriteTTL(ttl, t) ==
    LET created == MarshalBinary(t)
        le == LittleEndian(ttl, 8)
    IN [j \in 1..headerSize |->
          IF j - 1 = versionByte THEN 0
          ELSE IF createdStart <= j - 1 /\ j - 1 < createdEnd THEN created[j - createdStart]
          ELSE IF ttlStart <= j - 1 /\ j - 1 < ttlEnd THEN le[j - ttlStart]
          ELSE 0]

\* r.Read(head) on a file: the bytes read (at most headerSize), io.EOF on none
ReadHead(bytes) ==
    LET n == IF Len(bytes) < headerSize THEN Len(bytes) ELSE headerSize
    IN [err |-> n = 0, n |-> n, head |-> SubSeq(bytes, 1, n) \o Zeros(headerSize - n)]

\* mutant: the ttl = 0 case is not set apart, a record without ttl expires
TTLExceeded_ZeroTTLExpires(bytes, t) ==
    LET rd == ReadHead(bytes)
        ttl == FromLittleEndian(Slice(rd.head, ttlStart, ttlEnd))
        ref == UnmarshalBinary(Slice(rd.head, createdStart, createdEnd))
    IN IF rd.err \/ ref.err THEN [err |-> TRUE, ex |-> FALSE, n |-> rd.n]
       ELSE [err |-> FALSE, ex |-> After(t, Add(ref.t, ttl)), n |-> rd.n]

\* TTLExceeded at time t on a reader positioned at the start of `bytes`.
\* The version switch reads head before the header is read into it.
TTLExceeded(bytes, t) ==
    LET fresh == Zeros(headerSize)
        rd == ReadHead(bytes)
        ttl == FromLittleEndian(Slice(rd.head, ttlStart, ttlEnd))
        ref == UnmarshalBinary(Slice(rd.head, createdStart, createdEnd))
    IN IF fresh[versionByte + 1] # 0 THEN [err |-> TRUE, ex |-> FALSE, n |-> 0]
       ELSE IF rd.err THEN [err |-> TRUE, ex |-> FALSE, n |-> rd.n]
       ELSE IF ttl = 0 THEN [err |-> FALSE, ex |-> FALSE, n |-> rd.n]
       ELSE IF ref.err THEN [err |-> TRUE, ex |-> FALSE, n |-> rd.n]
       ELSE [err |-> FALSE, ex |-> After(t, Add(ref.t, ttl)), n |-> rd.n]

\* ------------------------------------------------------------------- state
VARIABLES
    backend,   \* the backend under test
    now,       \* the wall clock, in ticks
    files,     \* filesystem backend: the data directory, identifier -> file
    objects,   \* object-storage backend: the bucket, identifier -> object
    rows,      \* relational backend: table backend_sqlite_data, id -> row
    keys,      \* networked KV backend: the remote key space
    saved,     \* per identifier, the last save that returned success (history)
    res,       \* the last call and what it returned
    calls,     \* concurrent callers: per caller, the call in flight and its locals
    hdr,       \* a stored TTL header, with the time and ttl it was written with
    verdict,   \* what the last TTLExceeded on the stored header returned
    aesgcm,    \* the encryption decorator, once constructed
    wrapped,   \* the backend the decorator wraps: identifier -> blob it stores
    ret,       \* the last call on the decorator and what it returned
    sent,      \* the calls the wrapped backend received during that call
    stored,    \* the backend behind the HTTP service: key -> record
    resp,      \* the last HTTP request handled and the response written
    FileBackend,      \* file service: the record under f-id in the file backend
    MetadataBackend,  \* file service: the record under fm-id in the metadata backend
    requests   \* file service: per request, the handler, its position and its locals

storeVars == <<backend, now, files, objects, rows, keys, saved, res>>
callVars == <<calls>>
ttlVars == <<hdr, verdict>>
aesVars == <<aesgcm, wrapped, ret, sent>>
\* what a sequential call on the backend under test leaves alone
linkVars == <<stored, resp>>
fileVars == <<FileBackend, MetadataBackend, requests>>
auxVars == <<callVars, ttlVars, aesVars, linkVars, fileVars>>
\* what a step of a concurrent call leaves alone besides the stores
offCall == <<ttlVars, aesVars, linkVars, fileVars>>
\* what a write or a read of the TTL header leaves alone besides the clock
offTTL == <<backend, files, objects, rows, keys, saved, res, callVars, aesVars, linkVars,
           fileVars>>
\* what a call on the encryption decorator leaves alone
offAES == <<storeVars, callVars, ttlVars, linkVars, fileVars>>
\* what a request to the HTTP service leaves alone
offLink == <<storeVars, callVars, ttlVars, aesVars, fileVars>>
\* what a request to the file service leaves alone
offFile == <<storeVars, callVars, ttlVars, aesVars, linkVars>>
vars == <<storeVars, auxVars>>

TimeNow == TimeOf(now)

Nil == [nil |-> TRUE, data |-> <<>>]
Bytes(d) == [nil |-> FALSE, data |-> d]

NoFile == [exists |-> FALSE, bytes |-> <<>>]
NoObject == [exists |-> FALSE, created |-> 0, ttl |-> <<0, 0>>, data |-> <<>>]
NoRow == [exists |-> FALSE, Data |-> <<>>, Created |-> ZeroTime, Expires |-> ZeroTime]
NoKey == [exists |-> FALSE, val |-> <<>>, exp |-> ZeroTime]
NeverSaved == [st |-> "never", payload |-> <<>>, c |-> 0, ttl |-> 0, over |-> FALSE]

Result(op, i, err, n, out) ==
    [op |-> op, id |-> i, at |-> now, err |-> err, n |-> n, out |-> out, h |-> "none"]
\* the call opened a file handle that is in state h ("open", "closed") when
\* the call returns
WithHandle(r, h) == [r EXCEPT !.h = h]

Callers == 1..NumCallers

\* a caller that has not called yet
NoSource == [endless |-> FALSE, p |-> <<>>]
Idle == [pc |-> "idle", ttl |-> 0, s |-> FALSE, d |-> NoRow, lock |-> "NONE", err |-> "nil",
         src |-> NoSource, pos |-> 0, cancelled |-> FALSE, n |-> 0]
NoCalls == calls = [c \in Callers |-> Idle]

\* no header stored, none read
NoHeader ==
    /\ hdr = [bytes |-> <<>>, c |-> 0, ttl |-> 0, v |-> 0]
    /\ verdict = [read |-> FALSE, at |-> 0, c |-> 0, ttl |-> 0, v |-> 0, err |-> FALSE, ex |-> FALSE]

\* no decorator constructed, the backend to wrap is empty
NoBlob == [exists |-> FALSE, data |-> <<>>, ttl |-> 0]
NoDecorator ==
    /\ aesgcm = [nil |-> TRUE, key |-> [len |-> 0, seed |-> 0]]
    /\ wrapped = [i \in Ids |-> NoBlob]
    /\ ret = [op |-> "none", id |-> "a", p |-> <<>>, ttl |-> 0, blob |-> <<>>,
              err |-> "nil", chain |-> <<>>, out |-> Nil]
    /\ sent = <<>>

\* the HTTP service: identifiers of the route, URLs of the request body
prefix == "l-"
LinkIds == {"a", "b"}
LinkKeys == {prefix \o id : id \in LinkIds}
ValidURLs == {"https://a.example", "https://b.example"}
URLs == ValidURLs \cup {"not a url"}
NoLink == [exists |-> FALSE, data |-> "", ttl |-> 0]
Response(handler, id, err, status, location) ==
    [handler |-> handler, id |-> id, err |-> err, status |-> status, location |-> location]
\* no request handled, the backend behind the service is empty
NoRequest ==
    /\ stored = [k \in LinkKeys |-> NoLink]
    /\ resp = Response("none", "a", "none", 0, "")

\* the file service: requests for one id, the records under f-id and fm-id
Requests == 1..NumRequests
filePrefix == "f-"
metaPrefix == "fm-"
NoUploadedFile == [exists |-> FALSE, whole |-> FALSE, by |-> 0]
NoMetadata == [exists |-> FALSE, by |-> 0]
NoHandler == [handler |-> "none", pc |-> "idle", err |-> "nil", status |-> 0,
              attempted |-> FALSE, deleted |-> {}, removed |-> {}]
\* no request received, both backends of the file service hold nothing
NoUpload ==
    /\ FileBackend = NoUploadedFile
    /\ MetadataBackend = NoMetadata
    /\ requests = [c \in Requests |-> NoHandler]

\* fresh stores, the clock at its start, no call made
StoreInit ==
    /\ now = 0
    /\ files = [i \in Ids |-> NoFile]
    /\ objects = [i \in Ids |-> NoObject]
    /\ rows = [i \in Ids |-> NoRow]
    /\ keys = [i \in Ids |-> NoKey]
    /\ saved = [i \in Ids |-> NeverSaved]
    /\ res = Result("none", "a", "nil", 0, Nil)

Init ==
    /\ backend \in Backends
    /\ StoreInit
    /\ NoCalls
    /\ NoHeader
    /\ NoDecorator
    /\ NoRequest /\ NoUpload

\* the ttl of the record of i has elapsed at tick t
Elapsed(i, t) == saved[i].st = "saved" /\ saved[i].ttl > 0 /\ t > saved[i].c + saved[i].ttl

\* the history of saves: a save that returned success replaces the record
\* (over: it replaced a record whose ttl had elapsed)
Record(i, p, ttl, err) ==
    IF err = "nil"
    THEN [saved EXCEPT ![i] = [st |-> "saved", payload |-> p, c |-> now, ttl |-> ttl,
                               over |-> Elapsed(i, now)]]
    ELSE saved

\* a delete that returned success ends the record
Forget(i, err) ==
    IF err = "nil" /\ saved[i].st = "saved"
    THEN [saved EXCEPT ![i] = [st |-> "deleted", payload |-> <<>>, c |-> 0, ttl |-> 0,
                               over |-> FALSE]]
    ELSE saved

\* time passes
Tick ==
    /\ now < MaxTime
    /\ now' = now + 1
    /\ UNCHANGED <<backend, files, objects, rows, keys, saved, res, auxVars>>

\* ------------------------------------------- cancellable reader (app.NewCtxReader)
\* One Read of the wrapped source at offset pos: the cancellation signal is
\* checked first; otherwise the source yields its next byte, or io.EOF.
CtxRead(p, pos, cancel) ==
    IF cancel # NoCancel /\ pos >= cancel THEN [err |-> "Canceled", n |-> 0]
    ELSE IF pos >= Len(p) THEN [err |-> "EOF", n |-> 0]
    ELSE [err |-> "nil", n |-> 1]

\* io.CopyBuffer(w, app.NewCtxReader(c, r), buf): bytes written and the error
RECURSIVE CopyBuffer(_, _, _)
CopyBuffer(p, pos, cancel) ==
    LET rd == CtxRead(p, pos, cancel)
    IN IF rd.err = "EOF" THEN [n |-> pos, err |-> "nil"]
       ELSE IF rd.err # "nil" THEN [n |-> pos, err |-> rd.err]
       ELSE CopyBuffer(p, pos + rd.n, cancel)

\* ------------------------------------------ filesystem backend (fast/file.go)
\* os.OpenFile(p, O_WRONLY|O_CREATE|O_TRUNC): the file's content once opened
OpenTrunc(f) == <<>>

\* w.Write(data) at offset off of a file holding bytes; a write past the
\* end of the file (another handle has truncated it) leaves a hole of zeros
FileWrite(bytes, off, data) ==
    LET end == off + Len(data)
        len == IF Len(bytes) > end THEN Len(bytes) ELSE end
    IN [j \in 1..len |-> IF j > off /\ j <= end THEN data[j - off]
                          ELSE IF j <= Len(bytes) THEN bytes[j]
                          ELSE 0]

\* mutant: the handle is handed back rewound to the start of the file
AfterHeader_Rewound(bytes, n) == bytes

\* the handle Retrieve returns: positioned after the n bytes TTLExceeded read
AfterHeader(bytes, n) == SubSeq(bytes, n + 1, Len(bytes))

\* mutant: the file stays in the data directory
OsRemove_Keeps(f) == [err |-> IF f.exists THEN "nil" ELSE "Other", f |-> f]

\* os.Remove(p): an error when the file does not exist
OsRemove(f) == IF f.exists THEN [err |-> "nil", f |-> NoFile] ELSE [err |-> "Other", f |-> f]

FileFastBackend_SaveTTL(i, p, ttl, cancel) ==
    /\ backend = "file"
    /\ LET f == files[i]
           chk == TTLExceeded(f.bytes, TimeNow)
       IN IF f.exists /\ chk.err
          THEN /\ res' = Result("SaveTTL", i, "Other", 0, Nil)
               /\ UNCHANGED <<files, saved>>
          ELSE IF f.exists /\ ~chk.ex
          THEN /\ res' = Result("SaveTTL", i, "Conflict", 0, Nil)
               /\ UNCHANGED <<files, saved>>
          ELSE LET head == FileWrite(OpenTrunc(f), 0, WriteTTL(Duration(ttl), TimeNow))
                   cp == CopyBuffer(p, 0, cancel)
                   body == FileWrite(head, headerSize, SubSeq(p, 1, cp.n))
               IN /\ files' = [files EXCEPT ![i] = [exists |-> TRUE, bytes |-> body]]
                  /\ res' = Result("SaveTTL", i, cp.err, cp.n, Nil)
                  /\ saved' = Record(i, p, ttl, cp.err)
    /\ UNCHANGED <<backend, now, objects, rows, keys, auxVars>>

FileFastBackend_Retrieve(i) ==
    /\ backend = "file"
    /\ LET f == files[i]
           chk == TTLExceeded(f.bytes, TimeNow)
       IN IF ~f.exists
          THEN /\ res' = Result("Retrieve", i, "NotFound", 0, Nil)
               /\ UNCHANGED files
          ELSE IF chk.err
          THEN /\ res' = WithHandle(Result("Retrieve", i, "Other", 0, Nil), "open")
               /\ UNCHANGED files
          ELSE IF chk.ex
          THEN /\ res' = WithHandle(Result("Retrieve", i, "Expired", 0, Nil), "open")
               /\ files' = [files EXCEPT ![i] = OsRemove(f).f]
          ELSE /\ res' = WithHandle(Result("Retrieve", i, "nil", 0,
                                           Bytes(AfterHeader(f.bytes, chk.n))), "open")
               /\ UNCHANGED files
    /\ UNCHANGED <<backend, now, objects, rows, keys, saved, auxVars>>

FileFastBackend_Delete(i) ==
    /\ backend = "file"
    /\ LET rm == OsRemove(files[i])
       IN /\ files' = [files EXCEPT ![i] = rm.f]
          /\ res' = Result("Delete", i, rm.err, 0, Nil)
          /\ saved' = Forget(i, rm.err)
    /\ UNCHANGED <<backend, now, objects, rows, keys, auxVars>>

\* --------------------------------------- object-storage backend (fast/s3.go)
\* time.Format(time.RFC3339): the layout has no fraction, the string names a
\* whole second; time.Parse reads it back
FormatRFC3339(t) == t.sec
ParseRFC3339(str) == [sec |-> str, nsec |-> 0]

\* Duration.String and time.ParseDuration: seconds with their fraction
DurationString(d) == <<d \div NsPerSec, d % NsPerSec>>
ParseDuration(str) == str[1] * NsPerSec + str[2]

\* mutant: the size of the upload is not handed back
S3FastBackend_SaveTTL_NoSize(i, p, ttl) ==
    /\ backend = "s3"
    /\ LET info == objects[i]
           when == ParseRFC3339(info.created)
           exp == ParseDuration(info.ttl)
       IN IF info.exists /\ (exp = 0 \/ Before(TimeNow, Add(when, exp)))
          THEN /\ res' = Result("SaveTTL", i, "Conflict", 0, Nil)
               /\ UNCHANGED <<objects, saved>>
          ELSE /\ objects' = [objects EXCEPT ![i] =
                                [exists |-> TRUE,
                                 created |-> FormatRFC3339(TimeNow),
                                 ttl |-> DurationString(Duration(ttl)),
                                 data |-> p]]
               /\ res' = Result("SaveTTL", i, "nil", 0, Nil)
               /\ saved' = Record(i, p, ttl, "nil")
    /\ UNCHANGED <<backend, now, files, rows, keys, auxVars>>

S3FastBackend_SaveTTL(i, p, ttl) ==
    /\ backend = "s3"
    /\ LET info == objects[i]
           when == ParseRFC3339(info.created)
           exp == ParseDuration(info.ttl)
       IN IF info.exists /\ (exp = 0 \/ Before(TimeNow, Add(when, exp)))
          THEN /\ res' = Result("SaveTTL", i, "Conflict", 0, Nil)
               /\ UNCHANGED <<objects, saved>>
          ELSE /\ objects' = [objects EXCEPT ![i] =
                                [exists |-> TRUE,
                                 created |-> FormatRFC3339(TimeNow),
                                 ttl |-> DurationString(Duration(ttl)),
                                 data |-> p]]
               /\ res' = Result("SaveTTL", i, "nil", Len(p), Nil)
               /\ saved' = Record(i, p, ttl, "nil")
    /\ UNCHANGED <<backend, now, files, rows, keys, auxVars>>

S3FastBackend_Retrieve(i) ==
    /\ backend = "s3"
    /\ LET info == objects[i]
           when == ParseRFC3339(info.created)
           exp == ParseDuration(info.ttl)
       IN IF ~info.exists
          THEN res' = Result("Retrieve", i, "NotFound", 0, Nil)
          ELSE IF exp # 0 /\ After(TimeNow, Add(when, exp))
          THEN res' = Result("Retrieve", i, "Expired", 0, Nil)
          ELSE res' = Result("Retrieve", i, "nil", 0, Bytes(info.data))
    /\ UNCHANGED <<backend, now, files, objects, rows, keys, saved, auxVars>>

\* RemoveObject succeeds whether or not the object exists
S3FastBackend_Delete(i) ==
    /\ backend = "s3"
    /\ objects' = [objects EXCEPT ![i] = NoObject]
    /\ res' = Result("Delete", i, "nil", 0, Nil)
    /\ saved' = Forget(i, "nil")
    /\ UNCHANGED <<backend, now, files, rows, keys, auxVars>>

\* ------------------------------------------ relational backend (backend/sqlite.go)
\* tx.First(&d, "id = ?", identifier): the row, or the zero SQLiteData
First(i) == IF rows[i].exists THEN rows[i] ELSE NoRow

\* Create with ON CONFLICT (id) DO UPDATE SET data, expires
Upsert(row, d) ==
    IF row.exists
    THEN [row EXCEPT !.Data = d.Data, !.Expires = d.Expires]
    ELSE [d EXCEPT !.exists = TRUE]

SQLiteBackend_SaveTTL(i, p, ttl) ==
    /\ backend = "sqlite"
    /\ LET d == First(i)
           fresh == [exists |-> TRUE, Data |-> p, Created |-> TimeNow,
                     Expires |-> IF ttl > 0 THEN Add(TimeNow, Duration(ttl)) ELSE ZeroTime]
       IN IF ~IsZero(d.Created) \/ (~IsZero(d.Expires) /\ Before(TimeNow, d.Expires))
          THEN /\ res' = Result("SaveTTL", i, "Conflict", 0, Nil)
               /\ UNCHANGED <<rows, saved>>
          ELSE /\ rows' = [rows EXCEPT ![i] = Upsert(rows[i], fresh)]
               /\ res' = Result("SaveTTL", i, "nil", 0, Nil)
               /\ saved' = Record(i, p, ttl, "nil")
    /\ UNCHANGED <<backend, now, files, objects, keys, auxVars>>

\* mutant: the row read is handed back although it has expired
SQLiteBackend_Retrieve_Stale(i) ==
    /\ backend = "sqlite"
    /\ LET d == First(i)
       IN IF ~rows[i].exists
          THEN res' = Result("Retrieve", i, "NotFound", 0, Nil)
          ELSE IF ~IsZero(d.Expires) /\ After(TimeNow, d.Expires)
          THEN res' = Result("Retrieve", i, "NotFound", 0, Bytes(d.Data))
          ELSE res' = Result("Retrieve", i, "nil", 0, Bytes(d.Data))
    /\ UNCHANGED <<backend, now, files, objects, rows, keys, saved, auxVars>>

SQLiteBackend_Retrieve(i) ==
    /\ backend = "sqlite"
    /\ LET d == First(i)
       IN IF ~rows[i].exists
          THEN res' = Result("Retrieve", i, "NotFound", 0, Nil)
          ELSE IF ~IsZero(d.Expires) /\ After(TimeNow, d.Expires)
          THEN res' = Result("Retrieve", i, "NotFound", 0, Nil)
          ELSE res' = Result("Retrieve", i, "nil", 0, Bytes(d.Data))
    /\ UNCHANGED <<backend, now, files, objects, rows, keys, saved, auxVars>>

SQLiteBackend_Delete(i) ==
    /\ backend = "sqlite"
    /\ rows' = [rows EXCEPT ![i] = NoRow]
    /\ res' = Result("Delete", i, "nil", 0, Nil)
    /\ saved' = Forget(i, "nil")
    /\ UNCHANGED <<backend, now, files, objects, keys, auxVars>>

\* ------------------------------------------ networked KV backend (backend/redis.go)
\* the remote store drops a key once its expiry has passed
KeyLive(k, t) == k.exists /\ (IsZero(k.exp) \/ ~After(t, k.exp))

\* mutant: a plain SET, the key is written whether or not it exists
SetNX_Overwrites(k, p, ttl, t) ==
    [set |-> TRUE,
     k |-> [exists |-> TRUE, val |-> p, exp |-> IF ttl = 0 THEN ZeroTime ELSE Add(t, ttl)]]

\* SETNX / SET NX with an expiry: whether the key was set, and the key after
SetNX(k, p, ttl, t) ==
    IF KeyLive(k, t) THEN [set |-> FALSE, k |-> k]
    ELSE [set |-> TRUE,
          k |-> [exists |-> TRUE, val |-> p,
                 exp |-> IF ttl = 0 THEN ZeroTime ELSE Add(t, ttl)]]

RedisBackend_SaveTTL(i, p, ttl) ==
    /\ backend = "redis"
    /\ LET s == SetNX(keys[i], p, Duration(ttl), TimeNow)
           err == IF ~s.set THEN "Conflict" ELSE "nil"
       IN /\ keys' = [keys EXCEPT ![i] = s.k]
          /\ res' = Result("SaveTTL", i, err, 0, Nil)
          /\ saved' = Record(i, p, ttl, err)
    /\ UNCHANGED <<backend, now, files, objects, rows, auxVars>>

RedisBackend_Retrieve(i) ==
    /\ backend = "redis"
    /\ IF KeyLive(keys[i], TimeNow)
       THEN res' = Result("Retrieve", i, "nil", 0, Bytes(keys[i].val))
       ELSE res' = Result("Retrieve", i, "NotFound", 0, Nil)
    /\ UNCHANGED <<backend, now, files, objects, rows, keys, saved, auxVars>>

\* mutant: the whole key space is flushed
RedisBackend_Delete_FlushAll(i) ==
    /\ backend = "redis"
    /\ keys' = [k \in DOMAIN keys |-> NoKey]
    /\ res' = Result("Delete", i, "nil", 0, Nil)
    /\ saved' = Forget(i, "nil")
    /\ UNCHANGED <<backend, now, files, objects, rows, auxVars>>

RedisBackend_Delete(i) ==
    /\ backend = "redis"
    /\ keys' = [keys EXCEPT ![i] = NoKey]
    /\ res' = Result("Delete", i, "nil", 0, Nil)
    /\ saved' = Forget(i, "nil")
    /\ UNCHANGED <<backend, now, files, objects, rows, auxVars>>

\* ------------------------------------------------------------ specification
Next ==
    \/ Tick
    \/ \E i \in Ids, p \in Payloads, ttl \in TTLs : \E cancel \in Cancels(p) :
          FileFastBackend_SaveTTL(i, p, ttl, cancel)
    \/ \E i \in Ids : FileFastBackend_Retrieve(i)
    \/ \E i \in Ids : FileFastBackend_Delete(i)
    \/ \E i \in Ids, p \in Payloads, ttl \in TTLs : S3FastBackend_SaveTTL(i, p, ttl)
    \/ \E i \in Ids : S3FastBackend_Retrieve(i)
    \/ \E i \in Ids : S3FastBackend_Delete(i)
    \/ \E i \in Ids, p \in Payloads, ttl \in TTLs : SQLiteBackend_SaveTTL(i, p, ttl)
    \/ \E i \in Ids : SQLiteBackend_Retrieve(i)
    \/ \E i \in Ids : SQLiteBackend_Delete(i)
    \/ \E i \in Ids, p \in Payloads, ttl \in TTLs : RedisBackend_SaveTTL(i, p, ttl)
    \/ \E i \in Ids : RedisBackend_Retrieve(i)
    \/ \E i \in Ids : RedisBackend_Delete(i)

Spec == Init /\ [][Next]_vars

\* ------------------------------------------------------------ two identifiers
\* The backend holds the record of a second identifier, saved first with a
\* ttl of one tick; every call after that is made on the other identifier,
\* while the clock runs past the neighbour's ttl.
Neighbour == "b"
BothIds == Ids \cup {Neighbour}
NeighbourPayload == <<2>>

TwoIdsInit ==
    /\ backend \in Backends
    /\ now = 0
    /\ files = [i \in BothIds |-> NoFile]
    /\ objects = [i \in BothIds |-> NoObject]
    /\ rows = [i \in BothIds |-> NoRow]
    /\ keys = [i \in BothIds |-> NoKey]
    /\ saved = [i \in BothIds |-> NeverSaved]
    /\ res = Result("none", "a", "nil", 0, Nil)
    /\ NoCalls /\ NoHeader /\ NoDecorator /\ NoRequest /\ NoUpload

\* the first call: the neighbour's record is saved
SaveNeighbour ==
    /\ res.op = "none"
    /\ \/ FileFastBackend_SaveTTL(Neighbour, NeighbourPayload, 1, NoCancel)
       \/ S3FastBackend_SaveTTL(Neighbour, NeighbourPayload, 1)
       \/ SQLiteBackend_SaveTTL(Neighbour, NeighbourPayload, 1)
       \/ RedisBackend_SaveTTL(Neighbour, NeighbourPayload, 1)

NeighbourSaved == res.op # "none"

TwoIdsNext ==
    \/ SaveNeighbour
    \/ NeighbourSaved /\ Tick
    \/ \E i \in Ids, p \in Payloads, ttl \in TTLs : \E cancel \in Cancels(p) :
          NeighbourSaved /\ FileFastBackend_SaveTTL(i, p, ttl, cancel)
    \/ \E i \in Ids : NeighbourSaved /\ FileFastBackend_Retrieve(i)
    \/ \E i \in Ids : NeighbourSaved /\ FileFastBackend_Delete(i)
    \/ \E i \in Ids, p \in Payloads, ttl \in TTLs :
          NeighbourSaved /\ S3FastBackend_SaveTTL(i, p, ttl)
    \/ \E i \in Ids : NeighbourSaved /\ S3FastBackend_Retrieve(i)
    \/ \E i \in Ids : NeighbourSaved /\ S3FastBackend_Delete(i)
    \/ \E i \in Ids, p \in Payloads, ttl \in TTLs :
          NeighbourSaved /\ SQLiteBackend_SaveTTL(i, p, ttl)
    \/ \E i \in Ids : NeighbourSaved /\ SQLiteBackend_Retrieve(i)
    \/ \E i \in Ids : NeighbourSaved /\ SQLiteBackend_Delete(i)
    \/ \E i \in Ids, p \in Payloads, ttl \in TTLs :
          NeighbourSaved /\ RedisBackend_SaveTTL(i, p, ttl)
    \/ \E i \in Ids : NeighbourSaved /\ RedisBackend_Retrieve(i)
    \/ \E i \in Ids : NeighbourSaved /\ RedisBackend_Delete(i)

TwoIds == TwoIdsInit /\ [][TwoIdsNext]_vars

\* ------------------------------------------------ buffered backends, medium fails
\* The buffered backends (relational, networked KV) with a medium that may
\* fail a read: the query or the GET comes back with an error of its own.
BufferedBackends == {"sqlite", "redis"}

\* tx.First fails with an error other than gorm.ErrRecordNotFound
SQLiteBackend_Retrieve_Error(i) ==
    /\ backend = "sqlite"
    /\ res' = Result("Retrieve", i, "Other", 0, Nil)
    /\ UNCHANGED <<backend, now, files, objects, rows, keys, saved, auxVars>>

\* b.cli.Get fails with an error other than redis.Nil
RedisBackend_Retrieve_Error(i) ==
    /\ backend = "redis"
    /\ res' = Result("Retrieve", i, "Other", 0, Nil)
    /\ UNCHANGED <<backend, now, files, objects, rows, keys, saved, auxVars>>

BufferedInit ==
    /\ backend \in BufferedBackends
    /\ StoreInit /\ NoCalls /\ NoHeader /\ NoDecorator /\ NoRequest /\ NoUpload

BufferedNext ==
    \/ Tick
    \/ \E i \in Ids, p \in Payloads, ttl \in TTLs : SQLiteBackend_SaveTTL(i, p, ttl)
    \/ \E i \in Ids : SQLiteBackend_Retrieve(i)
    \/ \E i \in Ids : SQLiteBackend_Retrieve_Error(i)
    \/ \E i \in Ids : SQLiteBackend_Delete(i)
    \/ \E i \in Ids, p \in Payloads, ttl \in TTLs : RedisBackend_SaveTTL(i, p, ttl)
    \/ \E i \in Ids : RedisBackend_Retrieve(i)
    \/ \E i \in Ids : RedisBackend_Retrieve_Error(i)
    \/ \E i \in Ids : RedisBackend_Delete(i)

Buffered == BufferedInit /\ [][BufferedNext]_vars

\* ------------------------------------------------------- concurrent callers
\* Several callers save the same identifier at once (one goroutine per
\* request in flight).  Each caller's payload carries the caller's number, so
\* the stored payload names the call that wrote it.  The clock stands still.
TheId == "a"
PayloadOf(c) == <<c>>

Finish(c, err) ==
    [calls EXCEPT ![c].pc = "done", ![c].err = err, ![c].lock = "NONE", ![c].n = calls[c].pos]

\* --- networked KV backend: SaveTTL is one SETNX command, run by the server
\* as one step between the moment it is sent and the moment its reply is read
RedisBackend_SaveTTL_Send(c, ttl) ==
    /\ backend = "redis"
    /\ calls[c].pc = "idle"
    /\ calls' = [calls EXCEPT ![c].pc = "SetNX", ![c].ttl = ttl]
    /\ UNCHANGED <<storeVars, offCall>>

RedisBackend_SaveTTL_Exec(c) ==
    /\ backend = "redis"
    /\ calls[c].pc = "SetNX"
    /\ LET r == SetNX(keys[TheId], PayloadOf(c), Duration(calls[c].ttl), TimeNow)
       IN /\ keys' = [keys EXCEPT ![TheId] = r.k]
          /\ calls' = [calls EXCEPT ![c].pc = "Result", ![c].s = r.set]
    /\ UNCHANGED <<backend, now, files, objects, rows, saved, res, offCall>>

RedisBackend_SaveTTL_Return(c) ==
    /\ backend = "redis"
    /\ calls[c].pc = "Result"
    /\ calls' = Finish(c, IF ~calls[c].s THEN "Conflict" ELSE "nil")
    /\ UNCHANGED <<storeVars, offCall>>

\* --- relational backend: SaveTTL is a transaction (BEGIN, SELECT, INSERT ..
\* ON CONFLICT, COMMIT) on a connection of its own.  The database file is
\* guarded by SQLite's locks: a SELECT takes a SHARED lock and keeps it to the
\* end of the transaction, the first write takes the RESERVED lock (one
\* holder), COMMIT needs every other SHARED lock gone.
\* mutant: no lock is ever seen as held by another transaction
OthersHold_Nothing(c, locks) == FALSE

OthersHold(c, locks) == \E o \in Callers \ {c} : calls[o].lock \in locks

SQLiteBackend_SaveTTL_Begin(c, ttl) ==
    /\ backend = "sqlite"
    /\ calls[c].pc = "idle"
    /\ calls' = [calls EXCEPT ![c].pc = "First", ![c].ttl = ttl]
    /\ UNCHANGED <<storeVars, offCall>>

\* tx.First(&d, "id = ?", identifier)
SQLiteBackend_SaveTTL_First(c) ==
    /\ backend = "sqlite"
    /\ calls[c].pc = "First"
    /\ calls' = [calls EXCEPT ![c].pc = "Create", ![c].d = First(TheId), ![c].lock = "SHARED"]
    /\ UNCHANGED <<storeVars, offCall>>

\* the conflict test on the row read, then tx.Clauses(..).Create(&d): the
\* statement fails with "database is locked" when another transaction holds
\* the RESERVED lock, and the transaction is rolled back
SQLiteBackend_SaveTTL_Create(c) ==
    /\ backend = "sqlite"
    /\ calls[c].pc = "Create"
    /\ LET d == calls[c].d
       IN IF ~IsZero(d.Created) \/ (~IsZero(d.Expires) /\ Before(TimeNow, d.Expires))
          THEN calls' = Finish(c, "Conflict")
          ELSE IF OthersHold(c, {"RESERVED"})
          THEN calls' = Finish(c, "Other")
          ELSE calls' = [calls EXCEPT ![c].pc = "Commit", ![c].lock = "RESERVED"]
    /\ UNCHANGED <<storeVars, offCall>>

\* COMMIT: the row is written once no other transaction reads the database
SQLiteBackend_SaveTTL_Commit(c) ==
    /\ backend = "sqlite"
    /\ calls[c].pc = "Commit"
    /\ ~OthersHold(c, {"SHARED"})
    /\ LET ttl == calls[c].ttl
           fresh == [exists |-> TRUE, Data |-> PayloadOf(c), Created |-> TimeNow,
                     Expires |-> IF ttl > 0 THEN Add(TimeNow, Duration(ttl)) ELSE ZeroTime]
       IN rows' = [rows EXCEPT ![TheId] = Upsert(rows[TheId], fresh)]
    /\ calls' = Finish(c, "nil")
    /\ UNCHANGED <<backend, now, files, objects, keys, saved, res, offCall>>

\* COMMIT that waited for the readers until the busy timeout ran out: it
\* fails with "database is locked" and the transaction is rolled back
SQLiteBackend_SaveTTL_Busy(c) ==
    /\ backend = "sqlite"
    /\ calls[c].pc = "Commit"
    /\ OthersHold(c, {"SHARED"})
    /\ calls' = Finish(c, "Other")
    /\ UNCHANGED <<storeVars, offCall>>

ConcurrentInit ==
    /\ backend \in {"redis", "sqlite"}
    /\ StoreInit
    /\ NoCalls
    /\ NoHeader
    /\ NoDecorator
    /\ NoRequest /\ NoUpload

ConcurrentNext ==
    \/ \E c \in Callers, ttl \in TTLs : RedisBackend_SaveTTL_Send(c, ttl)
    \/ \E c \in Callers : RedisBackend_SaveTTL_Exec(c)
    \/ \E c \in Callers : RedisBackend_SaveTTL_Return(c)
    \/ \E c \in Callers, ttl \in TTLs : SQLiteBackend_SaveTTL_Begin(c, ttl)
    \/ \E c \in Callers : SQLiteBackend_SaveTTL_First(c)
    \/ \E c \in Callers : SQLiteBackend_SaveTTL_Create(c)
    \/ \E c \in Callers : SQLiteBackend_SaveTTL_Commit(c)
    \/ \E c \in Callers : SQLiteBackend_SaveTTL_Busy(c)

Concurrent == ConcurrentInit /\ [][ConcurrentNext]_vars

\* ---------------------------------------------------------- streaming save
\* FileFastBackend.SaveTTL step by step, with the source stream and the
\* cancellation signal of its context: the source ends after its payload or
\* never ends (crypto/rand.Reader in the tests), the signal may have fired
\* before the call or fires while the call runs.
Sources ==
    {[endless |-> FALSE, p |-> q] : q \in Payloads} \cup {[endless |-> TRUE, p |-> <<>>]}

\* the part of the source a Read at offset pos looks at
Window(src, pos) == IF src.endless THEN Zeros(pos + 1) ELSE src.p

StreamCallers == {1}

\* mutant: the source is read directly, not through the cancellable reader
CopyRead_Unwrapped(src, pos, cancelled) == CtxRead(Window(src, pos), pos, NoCancel)

\* a Read of app.NewCtxReader(c, r), the reader the copy reads from
CopyRead(src, pos, cancelled) ==
    CtxRead(Window(src, pos), pos, IF cancelled THEN pos ELSE NoCancel)

FileFastBackend_SaveTTL_Call(c, ttl, src, fired) ==
    /\ backend = "file"
    /\ calls[c].pc = "idle"
    /\ calls' = [calls EXCEPT ![c] = [Idle EXCEPT !.pc = "Stat", !.ttl = ttl, !.src = src,
                                                   !.cancelled = fired]]
    /\ UNCHANGED <<storeVars, offCall>>

\* os.Stat and, on a file that exists, TTLExceeded
FileFastBackend_SaveTTL_Check(c) ==
    /\ backend = "file"
    /\ calls[c].pc = "Stat"
    /\ LET f == files[TheId]
           chk == TTLExceeded(f.bytes, TimeNow)
       IN IF f.exists /\ chk.err THEN calls' = Finish(c, "Other")
          ELSE IF f.exists /\ ~chk.ex THEN calls' = Finish(c, "Conflict")
          ELSE calls' = [calls EXCEPT ![c].pc = "Open"]
    /\ UNCHANGED <<storeVars, offCall>>

\* mutant: the file is created with O_EXCL, a file that is there is a conflict
FileFastBackend_SaveTTL_Open_Excl(c) ==
    /\ backend = "file"
    /\ calls[c].pc = "Open"
    /\ IF files[TheId].exists
       THEN calls' = Finish(c, "Conflict") /\ UNCHANGED files
       ELSE /\ files' = [files EXCEPT ![TheId] =
                           [exists |-> TRUE,
                            bytes |-> FileWrite(OpenTrunc(files[TheId]), 0,
                                                WriteTTL(Duration(calls[c].ttl), TimeNow))]]
            /\ calls' = [calls EXCEPT ![c].pc = "Copy"]
    /\ UNCHANGED <<backend, now, objects, rows, keys, saved, res, offCall>>

\* os.OpenFile(p, O_WRONLY|O_CREATE|O_TRUNC) and app.WriteTTL(w, ttl)
FileFastBackend_SaveTTL_Open(c) ==
    /\ backend = "file"
    /\ calls[c].pc = "Open"
    /\ files' = [files EXCEPT ![TheId] =
                    [exists |-> TRUE,
                     bytes |-> FileWrite(OpenTrunc(files[TheId]), 0,
                                         WriteTTL(Duration(calls[c].ttl), TimeNow))]]
    /\ calls' = [calls EXCEPT ![c].pc = "Copy"]
    /\ UNCHANGED <<backend, now, objects, rows, keys, saved, res, offCall>>

\* one round of io.CopyBuffer: a Read of the cancellable reader, then the
\* Write of what it read; the call returns on io.EOF or on an error
FileFastBackend_SaveTTL_Copy(c) ==
    /\ backend = "file"
    /\ calls[c].pc = "Copy"
    /\ LET me == calls[c]
           rd == CopyRead(me.src, me.pos, me.cancelled)
       IN /\ me.src.endless => (me.pos < MaxCopied \/ me.cancelled)
          /\ IF rd.err = "EOF"
             THEN calls' = Finish(c, "nil") /\ UNCHANGED files
             ELSE IF rd.err # "nil"
             THEN calls' = Finish(c, rd.err) /\ UNCHANGED files
             ELSE IF me.pos >= MaxCopied
             THEN UNCHANGED <<calls, files>>
             ELSE \E b \in (IF me.src.endless THEN PayloadBytes ELSE {me.src.p[me.pos + 1]}) :
                     /\ files' = [files EXCEPT ![TheId].bytes =
                                     FileWrite(files[TheId].bytes, headerSize + me.pos, <<b>>)]
                     /\ calls' = [calls EXCEPT ![c].pos = me.pos + rd.n]
    /\ UNCHANGED <<backend, now, objects, rows, keys, saved, res, offCall>>

\* the cancellation signal of the call's context fires while the call runs
Cancel(c) ==
    /\ calls[c].pc \in {"Stat", "Open", "Copy"}
    /\ ~calls[c].cancelled
    /\ calls' = [calls EXCEPT ![c].cancelled = TRUE]
    /\ UNCHANGED <<storeVars, offCall>>

\* the goroutine of the call runs on
Run(c) ==
    \/ FileFastBackend_SaveTTL_Check(c)
    \/ FileFastBackend_SaveTTL_Open(c)
    \/ FileFastBackend_SaveTTL_Copy(c)

\* the data directory when the call is made: empty, or holding a record of
\* the identifier that an earlier SaveTTL with ttl = 0 wrote
StreamingInit ==
    /\ backend = "file"
    /\ now = 0
    /\ files \in {[i \in Ids |-> NoFile],
                  [i \in Ids |-> [exists |-> TRUE, bytes |-> WriteTTL(0, TimeOf(0))]]}
    /\ objects = [i \in Ids |-> NoObject]
    /\ rows = [i \in Ids |-> NoRow]
    /\ keys = [i \in Ids |-> NoKey]
    /\ saved = [i \in Ids |-> NeverSaved]
    /\ res = Result("none", "a", "nil", 0, Nil)
    /\ NoCalls
    /\ NoHeader
    /\ NoDecorator
    /\ NoRequest /\ NoUpload

StreamingNext ==
    \/ \E c \in StreamCallers, ttl \in TTLs, src \in Sources, fired \in BOOLEAN :
          FileFastBackend_SaveTTL_Call(c, ttl, src, fired)
    \/ \E c \in StreamCallers : FileFastBackend_SaveTTL_Check(c)
    \/ \E c \in StreamCallers : FileFastBackend_SaveTTL_Open(c)
    \/ \E c \in StreamCallers : FileFastBackend_SaveTTL_Copy(c)
    \/ \E c \in StreamCallers : Cancel(c)

Streaming == StreamingInit /\ [][StreamingNext]_vars /\ \A c \in StreamCallers : WF_vars(Run(c))

\* ------------------------------------------------- racing saves on one file
\* Two callers save the same identifier of the filesystem backend at once,
\* each its own payload, while a third party retrieves it; the data
\* directory starts empty and the clock stands still.
RaceCallers == {1, 2}
SourceOf(c) == [endless |-> FALSE, p |-> PayloadOf(c)]

RacingInit ==
    /\ backend = "file"
    /\ StoreInit /\ NoCalls /\ NoHeader /\ NoDecorator /\ NoRequest /\ NoUpload

RacingNext ==
    \/ \E c \in RaceCallers, ttl \in TTLs : FileFastBackend_SaveTTL_Call(c, ttl, SourceOf(c), FALSE)
    \/ \E c \in RaceCallers : FileFastBackend_SaveTTL_Check(c)
    \/ \E c \in RaceCallers : FileFastBackend_SaveTTL_Open(c)
    \/ \E c \in RaceCallers : FileFastBackend_SaveTTL_Copy(c)
    \/ FileFastBackend_Retrieve(TheId)

Racing == RacingInit /\ [][RacingNext]_vars

\* ------------------------------------------- eviction on access against a save
\* The data directory holds an expired record of the identifier.  One caller
\* retrieves it, step by step: the file is opened and its header read, and
\* the os.Remove that Retrieve deferred runs when Retrieve returns.  Another
\* caller saves the identifier anew meanwhile.  The clock stands still.
Saver == 1
Evictor == 2

\* os.OpenFile(p, O_RDONLY) and app.TTLExceeded(file)
FileFastBackend_Retrieve_Open(c) ==
    /\ backend = "file"
    /\ calls[c].pc = "idle"
    /\ LET f == files[TheId]
           chk == TTLExceeded(f.bytes, TimeNow)
       IN IF ~f.exists THEN calls' = Finish(c, "NotFound")
          ELSE IF chk.err THEN calls' = Finish(c, "Other")
          ELSE IF chk.ex THEN calls' = [calls EXCEPT ![c].pc = "Remove"]
          ELSE calls' = Finish(c, "nil")
    /\ UNCHANGED <<storeVars, offCall>>

\* defer os.Remove(p); return nil, app.ErrExpired
FileFastBackend_Retrieve_Remove(c) ==
    /\ backend = "file"
    /\ calls[c].pc = "Remove"
    /\ files' = [files EXCEPT ![TheId] = OsRemove(files[TheId]).f]
    /\ calls' = Finish(c, "Expired")
    /\ UNCHANGED <<backend, now, objects, rows, keys, saved, res, offCall>>

\* a record saved at time 0 with a ttl of one tick, found after it ran out
EvictingInit ==
    /\ backend = "file"
    /\ now \in 2..MaxTime
    /\ \E p \in Payloads :
          files = [i \in Ids |->
                     [exists |-> TRUE,
                      bytes |-> FileWrite(WriteTTL(Duration(1), TimeOf(0)), headerSize, p)]]
    /\ objects = [i \in Ids |-> NoObject]
    /\ rows = [i \in Ids |-> NoRow]
    /\ keys = [i \in Ids |-> NoKey]
    /\ saved = [i \in Ids |-> NeverSaved]
    /\ res = Result("none", "a", "nil", 0, Nil)
    /\ NoCalls /\ NoHeader /\ NoDecorator /\ NoRequest /\ NoUpload

EvictingNext ==
    \/ \E ttl \in TTLs : FileFastBackend_SaveTTL_Call(Saver, ttl, SourceOf(Saver), FALSE)
    \/ FileFastBackend_SaveTTL_Check(Saver)
    \/ FileFastBackend_SaveTTL_Open(Saver)
    \/ FileFastBackend_SaveTTL_Copy(Saver)
    \/ FileFastBackend_Retrieve_Open(Evictor)
    \/ FileFastBackend_Retrieve_Remove(Evictor)

Evicting == EvictingInit /\ [][EvictingNext]_vars

\* ------------------------------------------------------------- TTL header
\* WriteTTL and TTLExceeded on their own: a header is written at some time
\* with some ttl, it may be a header whose version byte another version of
\* the format wrote, and it is read back at a later time.
Versions == {0, 1, 255}

\* app.WriteTTL(w, ttl) on an empty writer
TTL_Write(ttl) ==
    /\ hdr' = [bytes |-> WriteTTL(Duration(ttl), TimeNow), c |-> now, ttl |-> ttl, v |-> 0]
    /\ UNCHANGED <<now, verdict, offTTL>>

\* the stored header carries version byte v
TTL_Stored(v) ==
    /\ Len(hdr.bytes) = headerSize
    /\ hdr' = [hdr EXCEPT !.bytes[versionByte + 1] = v, !.v = v]
    /\ UNCHANGED <<now, verdict, offTTL>>

\* app.TTLExceeded(r) on a reader over the stored header
TTL_Read ==
    /\ Len(hdr.bytes) = headerSize
    /\ LET r == TTLExceeded(hdr.bytes, TimeNow)
       IN verdict' = [read |-> TRUE, at |-> now, c |-> hdr.c, ttl |-> hdr.ttl, v |-> hdr.v,
                      err |-> r.err, ex |-> r.ex]
    /\ UNCHANGED <<now, hdr, offTTL>>

TTL_Tick ==
    /\ now < MaxTime
    /\ now' = now + 1
    /\ UNCHANGED <<hdr, verdict, offTTL>>

HeaderInit ==
    /\ backend = "file"
    /\ StoreInit
    /\ NoCalls
    /\ NoHeader
    /\ NoDecorator
    /\ NoRequest /\ NoUpload

HeaderNext ==
    \/ \E ttl \in TTLs : TTL_Write(ttl)
    \/ \E v \in Versions : TTL_Stored(v)
    \/ TTL_Read
    \/ TTL_Tick

Header == HeaderInit /\ [][HeaderNext]_vars

\* ---------------------------------- encryption decorator (encryption/aes_gcm_backend.go)
\* A key is its length and the material it was drawn from.  AES-GCM is
\* modelled by a keyed stream cipher with a keyed checksum as tag: the
\* ciphertext is the plaintext masked byte by byte with a stream that depends
\* on key and nonce, the tag depends on key, nonce and every ciphertext byte.
NonceSize == 12
Overhead == 16
KeySizes == {16, 24, 32}
KeyLens == KeySizes \cup {0, 33}
Keys == [len : KeyLens, seed : {1, 2}]
\* io.ReadFull(rand.Reader, output): the nonces drawn
Nonces == {[j \in 1..NonceSize |-> r] : r \in {7, 130}}

RECURSIVE Sum(_)
Sum(b) == IF b = <<>> THEN 0 ELSE Head(b) + Sum(Tail(b))

KeyStream(k, nonce, j) == (k.len + 31 * k.seed + Sum(nonce) + j) % 256
Tag(k, nonce, ct) ==
    LET base == k.len + 17 * k.seed + Sum(nonce) + Sum(ct)
    IN [j \in 1..Overhead |-> (base + j) % 256]

\* mutant: the plaintext goes out unmasked, followed by the tag
Seal_Unmasked(k, nonce, data) == data \o Tag(k, nonce, data)

\* aesgcm.Seal(dst, nonce, data, nil) appended to dst: ciphertext, then tag
Seal(k, nonce, data) ==
    LET ct == [j \in 1..Len(data) |-> (data[j] + KeyStream(k, nonce, j)) % 256]
    IN ct \o Tag(k, nonce, ct)

\* mutant: the ciphertext is handed back as it is, without unmasking
Open_Masked(k, nonce, data) ==
    [err |-> Len(data) < Overhead, p |-> SubSeq(data, 1, Len(data) - Overhead)]

\* mutant: the tag is cut off but not compared
Open_Unauthenticated(k, nonce, data) ==
    LET ct == SubSeq(data, 1, Len(data) - Overhead)
    IN [err |-> Len(data) < Overhead,
        p |-> [j \in 1..Len(ct) |-> (ct[j] + 256 - KeyStream(k, nonce, j)) % 256]]

\* aesgcm.Open(nil, nonce, data, nil): the plaintext, or an error when the
\* tag does not belong to key, nonce and ciphertext
Open(k, nonce, data) ==
    LET ct == SubSeq(data, 1, Len(data) - Overhead)
        tag == SubSeq(data, Len(data) - Overhead + 1, Len(data))
    IN IF Len(data) < Overhead \/ tag # Tag(k, nonce, ct)
       THEN [err |-> TRUE, p |-> <<>>]
       ELSE [err |-> FALSE,
             p |-> [j \in 1..Len(ct) |-> (ct[j] + 256 - KeyStream(k, nonce, j)) % 256]]

\* (a *AESGCM) encrypt: nonce, ciphertext, tag
AESGCM_encrypt(k, nonce, data) == nonce \o Seal(k, nonce, data)

\* (a *AESGCM) decrypt
AESGCM_decrypt(k, data) ==
    IF Len(data) < NonceSize + Overhead THEN [err |-> TRUE, p |-> <<>>]
    ELSE Open(k, SubSeq(data, 1, NonceSize), SubSeq(data, NonceSize + 1, Len(data)))

\* a call the wrapped backend received, with its arguments
Sent(op, i, data, ttl) == [op |-> op, id |-> i, data |-> data, ttl |-> ttl]

\* an error value as a chain, outermost message first: nil is the empty
\* chain, a sentinel of package app (app.ErrConflict, app.ErrNotFound) or an
\* opaque error is a chain of one
Sentinel(err) == IF err = "nil" THEN <<>> ELSE <<err>>
\* errors.Wrap(err, msg) of github.com/pkg/errors: nil stays nil
errors_Wrap(chain, msg) == IF chain = <<>> THEN <<>> ELSE <<msg>> \o chain
\* errors.Is(err, target): target is err or is reached by unwrapping it
errors_Is(chain, target) == \E j \in 1..Len(chain) : chain[j] = target

\* what a call on the decorator returned: err is the error at the root of
\* the chain, chain the error value itself
Returned(op, i, p, ttl, blob, err, out) ==
    [op |-> op, id |-> i, p |-> p, ttl |-> ttl, blob |-> blob, err |-> err,
     chain |-> Sentinel(err), out |-> out]
WithMessage(r, msg) == [r EXCEPT !.chain = errors_Wrap(@, msg)]

\* mutant: the key length is not looked at
NewAESGCMBackend_AnyKey(hasBackend, k) ==
    /\ aesgcm.nil
    /\ IF ~hasBackend
       THEN /\ ret' = Returned("New", "a", <<>>, 0, <<>>, "Other", Nil)
            /\ UNCHANGED aesgcm
       ELSE /\ ret' = Returned("New", "a", <<>>, 0, <<>>, "nil", Nil)
            /\ aesgcm' = [nil |-> FALSE, key |-> k]
    /\ sent' = <<>>
    /\ UNCHANGED <<wrapped, offAES>>

\* NewAESGCMBackend(backend, key), until a decorator is constructed
NewAESGCMBackend(hasBackend, k) ==
    /\ aesgcm.nil
    /\ IF ~hasBackend \/ k.len \notin KeySizes
       THEN /\ ret' = Returned("New", "a", <<>>, 0, <<>>, "Other", Nil)
            /\ UNCHANGED aesgcm
       ELSE /\ ret' = Returned("New", "a", <<>>, 0, <<>>, "nil", Nil)
            /\ aesgcm' = [nil |-> FALSE, key |-> k]
    /\ sent' = <<>>
    /\ UNCHANGED <<wrapped, offAES>>

\* a.backend.SaveTTL of the wrapped backend: Conflict on a blob it holds
Wrapped_SaveTTL(i, blob, ttl) ==
    IF wrapped[i].exists THEN [err |-> "Conflict", w |-> wrapped]
    ELSE [err |-> "nil", w |-> [wrapped EXCEPT ![i] = [exists |-> TRUE, data |-> blob, ttl |-> ttl]]]

\* a.backend.Retrieve of the wrapped backend: the blob it was given
Wrapped_Retrieve(i) ==
    IF wrapped[i].exists THEN [err |-> "nil", data |-> wrapped[i].data]
    ELSE [err |-> "NotFound", data |-> <<>>]

AESGCM_SaveTTL(i, p, ttl, nonce) ==
    /\ ~aesgcm.nil
    /\ LET ciphertext == AESGCM_encrypt(aesgcm.key, nonce, p)
           sv == Wrapped_SaveTTL(i, ciphertext, ttl)
       IN /\ wrapped' = sv.w
          /\ ret' = Returned("SaveTTL", i, p, ttl, ciphertext, sv.err, Nil)
          /\ sent' = <<Sent("SaveTTL", i, ciphertext, ttl)>>
    /\ UNCHANGED <<aesgcm, offAES>>

\* mutant: the error of the wrapped backend is replaced by a new one
AESGCM_Retrieve_Opaque(i) ==
    /\ ~aesgcm.nil
    /\ LET got == Wrapped_Retrieve(i)
           dec == AESGCM_decrypt(aesgcm.key, got.data)
       IN IF got.err # "nil"
          THEN ret' = Returned("Retrieve", i, <<>>, 0, <<>>, "Other", Nil)
          ELSE IF dec.err
          THEN ret' = Returned("Retrieve", i, <<>>, 0, <<>>, "Other", Nil)
          ELSE ret' = Returned("Retrieve", i, <<>>, 0, <<>>, "nil", Bytes(dec.p))
    /\ sent' = <<Sent("Retrieve", i, <<>>, 0)>>
    /\ UNCHANGED <<aesgcm, wrapped, offAES>>

AESGCM_Retrieve(i) ==
    /\ ~aesgcm.nil
    /\ LET got == Wrapped_Retrieve(i)
           dec == AESGCM_decrypt(aesgcm.key, got.data)
       IN IF got.err # "nil"
          THEN ret' = WithMessage(Returned("Retrieve", i, <<>>, 0, <<>>, got.err, Nil),
                                  "getting ciphertext from backend")
          ELSE IF dec.err
          THEN ret' = WithMessage(Returned("Retrieve", i, <<>>, 0, <<>>, "Other", Nil),
                                  "decrypting")
          ELSE ret' = Returned("Retrieve", i, <<>>, 0, <<>>, "nil", Bytes(dec.p))
    /\ sent' = <<Sent("Retrieve", i, <<>>, 0)>>
    /\ UNCHANGED <<aesgcm, wrapped, offAES>>

DecoratorInit ==
    /\ backend = "redis"
    /\ StoreInit
    /\ NoCalls
    /\ NoHeader
    /\ NoDecorator
    /\ NoRequest /\ NoUpload

DecoratorNext ==
    \/ \E hasBackend \in BOOLEAN, k \in Keys : NewAESGCMBackend(hasBackend, k)
    \/ \E i \in Ids, p \in Payloads, ttl \in TTLs, nonce \in Nonces : AESGCM_SaveTTL(i, p, ttl, nonce)
    \/ \E i \in Ids : AESGCM_Retrieve(i)

Decorator == DecoratorInit /\ [][DecoratorNext]_vars

\* ------------------------------------------------- stored blob changed at rest
\* The blob the wrapped backend holds is changed between SaveTTL and Retrieve
\* (w.How(cipherText) of the test): one byte gets another value, or the blob
\* is cut below nonce plus tag.
Deltas == {1, 128}
ShortLens == {0, NonceSize - 1, NonceSize, Overhead, NonceSize + Overhead - 1}
\* keys and nonce of the manipulation test: one key of every length, one nonce
HowKeys == {k \in Keys : k.seed = 1}
HowNonces == {n \in Nonces : n[1] = 7}

Manipulated(blob, j, d) == [blob EXCEPT ![j] = (@ + d) % 256]

\* the blob is whole: it is the one the last SaveTTL handed over
Whole(i) ==
    /\ ret.op = "SaveTTL" /\ ret.err = "nil" /\ ret.id = i
    /\ wrapped[i].exists /\ wrapped[i].data = ret.blob

\* w.How: byte j of the blob (nonce, ciphertext body or tag) is changed
How(i, j, d) ==
    /\ Whole(i)
    /\ j \in 1..Len(wrapped[i].data)
    /\ wrapped' = [wrapped EXCEPT ![i].data = Manipulated(@, j, d)]
    /\ UNCHANGED <<aesgcm, ret, sent, offAES>>

\* the blob loses its tail and is left with n bytes
Shorten(i, n) ==
    /\ Whole(i)
    /\ n < Len(wrapped[i].data)
    /\ wrapped' = [wrapped EXCEPT ![i].data = SubSeq(@, 1, n)]
    /\ UNCHANGED <<aesgcm, ret, sent, offAES>>

ManipulatedInit == DecoratorInit

ManipulatedNext ==
    \/ \E hasBackend \in BOOLEAN, k \in HowKeys : NewAESGCMBackend(hasBackend, k)
    \/ \E i \in Ids, p \in Payloads, nonce \in HowNonces : AESGCM_SaveTTL(i, p, 0, nonce)
    \/ \E i \in Ids, j \in 1..(NonceSize + MaxLen + Overhead), d \in Deltas : How(i, j, d)
    \/ \E i \in Ids, n \in ShortLens : Shorten(i, n)
    \/ \E i \in Ids : AESGCM_Retrieve(i)

ManipulatedBlob == ManipulatedInit /\ [][ManipulatedNext]_vars

\* ------------------------------------------- link service (service/link/service.go)
\* The handlers of the link service over a buffered backend that keeps what
\* it is given (Conflict on a key it holds, NotFound on one it does not) and
\* whose medium may fail a call.
response_ErrUnexpected == 500
response_ErrBadRequest == 400
response_ErrNotFound == 404
response_ErrConflict == 409
StatusOK == 200
StatusFound == 302

\* validator.URL(req.URL)
validator_URL(url) == url \in ValidURLs

\* s.Backend.SaveTTL(ctx, key, data, ttl)
Backend_SaveTTL(key, data, ttl, fails) ==
    IF fails THEN [err |-> "Other", st |-> stored]
    ELSE IF stored[key].exists THEN [err |-> "Conflict", st |-> stored]
    ELSE [err |-> "nil", st |-> [stored EXCEPT ![key] = [exists |-> TRUE, data |-> data, ttl |-> ttl]]]

\* s.Backend.Retrieve(ctx, key)
Backend_Retrieve(key, fails) ==
    IF fails THEN [err |-> "Other", data |-> ""]
    ELSE IF stored[key].exists THEN [err |-> "nil", data |-> stored[key].data]
    ELSE [err |-> "NotFound", data |-> ""]

\* PUT /l-{id}/{ttl} with a JSON body {"url": ...}; ttl in seconds
saveLink(id, ttl, validJson, url, fails) ==
    /\ IF ~validJson
       THEN /\ resp' = Response("saveLink", id, "none", response_ErrBadRequest, "")
            /\ UNCHANGED stored
       ELSE IF ~validator_URL(url)
       THEN /\ resp' = Response("saveLink", id, "none", response_ErrBadRequest, "")
            /\ UNCHANGED stored
       ELSE LET sv == Backend_SaveTTL(prefix \o id, url, NsPerSec * ttl, fails)
            IN /\ stored' = sv.st
               /\ resp' = Response("saveLink", id, sv.err,
                                   IF sv.err = "Conflict" THEN response_ErrConflict
                                   ELSE IF sv.err # "nil" THEN response_ErrUnexpected
                                   ELSE StatusOK, "")
    /\ UNCHANGED offLink

\* mutant: NotFound is not told apart from the other errors
retrieveLink_NoNotFound(id, fails) ==
    /\ LET got == Backend_Retrieve(prefix \o id, fails)
       IN resp' = Response("retrieveLink", id, got.err,
                           IF got.err # "nil" THEN response_ErrUnexpected ELSE StatusFound,
                           got.data)
    /\ UNCHANGED <<stored, offLink>>

\* GET /l-{id}
retrieveLink(id, fails) ==
    /\ LET got == Backend_Retrieve(prefix \o id, fails)
       IN resp' = Response("retrieveLink", id, got.err,
                           IF got.err = "NotFound" THEN response_ErrNotFound
                           ELSE IF got.err # "nil" THEN response_ErrUnexpected
                           ELSE StatusFound,
                           got.data)
    /\ UNCHANGED <<stored, offLink>>

LinkInit ==
    /\ backend = "redis"
    /\ StoreInit /\ NoCalls /\ NoHeader /\ NoDecorator /\ NoRequest /\ NoUpload

LinkNext ==
    \/ \E id \in LinkIds, ttl \in TTLs, validJson \in BOOLEAN, url \in URLs, fails \in BOOLEAN :
          saveLink(id, ttl, validJson, url, fails)
    \/ \E id \in LinkIds, fails \in BOOLEAN : retrieveLink(id, fails)

Link == LinkInit /\ [][LinkNext]_vars

\* ------------------------------------------------ file service (service/file)
\* Requests for one id. Both backends are written with ttl 0, so a record
\* that exists is live: SaveTTL on it returns Conflict.
BothKeys == {filePrefix, metaPrefix}
Forms == {"file", "other", "short"}
Failures == {"no", "before", "during"}

Answer(c, err, status) ==
    [requests EXCEPT ![c].pc = "done", ![c].err = err, ![c].status = status]
\* the response is written and the deferred cleanup has yet to run
Failed(c, err, status) ==
    [requests EXCEPT ![c].pc = "cleanup", ![c].err = err, ![c].status = status,
                     ![c].attempted = TRUE]

\* POST /f-{id}, up to the deferred cleanup being registered: the request is
\* read as multipart, fm-id is looked up, the first part is read and peeked
saveFile_Check(c, multipart, form, fails) ==
    /\ requests[c].pc = "idle"
    /\ LET r == [requests EXCEPT ![c].handler = "saveFile"]
       IN requests' =
            IF ~multipart THEN [r EXCEPT ![c].pc = "done", ![c].status = response_ErrBadRequest]
            ELSE IF fails
            THEN [r EXCEPT ![c].pc = "done", ![c].err = "Other", ![c].status = response_ErrUnexpected]
            ELSE IF MetadataBackend.exists
            THEN [r EXCEPT ![c].pc = "done", ![c].status = response_ErrConflict]
            ELSE IF form # "file"
            THEN [r EXCEPT ![c].pc = "done", ![c].err = "NotFound",
                           ![c].status = response_ErrBadRequest]
            ELSE [r EXCEPT ![c].pc = "SaveTTL", ![c].err = "NotFound"]
    /\ UNCHANGED <<FileBackend, MetadataBackend, offFile>>

\* mutant: a Conflict from the file backend is answered without cleanup
saveFile_File_ConflictKeeps(c, fails) ==
    /\ requests[c].pc = "SaveTTL"
    /\ IF fails = "before"
       THEN /\ requests' = Failed(c, "Other", response_ErrUnexpected)
            /\ UNCHANGED FileBackend
       ELSE IF FileBackend.exists
       THEN /\ requests' = [Answer(c, "Conflict", response_ErrUnexpected)
                                EXCEPT ![c].attempted = TRUE]
            /\ UNCHANGED FileBackend
       ELSE IF fails = "during"
       THEN /\ requests' = Failed(c, "Other", response_ErrUnexpected)
            /\ FileBackend' = [exists |-> TRUE, whole |-> FALSE, by |-> c]
       ELSE /\ requests' = [requests EXCEPT ![c].pc = "Metadata", ![c].err = "nil",
                                            ![c].attempted = TRUE]
            /\ FileBackend' = [exists |-> TRUE, whole |-> TRUE, by |-> c]
    /\ UNCHANGED <<MetadataBackend, offFile>>

\* written, err = s.FileBackend.SaveTTL(ctx, f-id, file, 0): the backend
\* fails before it writes, reports a live record, fails while it copies
\* (part of the file is stored), or stores the file
saveFile_File(c, fails) ==
    /\ requests[c].pc = "SaveTTL"
    /\ IF fails = "before"
       THEN /\ requests' = Failed(c, "Other", response_ErrUnexpected)
            /\ UNCHANGED FileBackend
       ELSE IF FileBackend.exists
       THEN /\ requests' = Failed(c, "Conflict", response_ErrUnexpected)
            /\ UNCHANGED FileBackend
       ELSE IF fails = "during"
       THEN /\ requests' = Failed(c, "Other", response_ErrUnexpected)
            /\ FileBackend' = [exists |-> TRUE, whole |-> FALSE, by |-> c]
       ELSE /\ requests' = [requests EXCEPT ![c].pc = "Metadata", ![c].err = "nil",
                                            ![c].attempted = TRUE]
            /\ FileBackend' = [exists |-> TRUE, whole |-> TRUE, by |-> c]
    /\ UNCHANGED <<MetadataBackend, offFile>>

\* err = s.MetadataBackend.SaveTTL(ctx, fm-id, buf, 0), then the response
saveFile_Metadata(c, fails) ==
    /\ requests[c].pc = "Metadata"
    /\ IF fails
       THEN /\ requests' = Failed(c, "Other", response_ErrUnexpected)
            /\ UNCHANGED MetadataBackend
       ELSE IF MetadataBackend.exists
       THEN /\ requests' = Failed(c, "Conflict", response_ErrUnexpected)
            /\ UNCHANGED MetadataBackend
       ELSE /\ requests' = Answer(c, "nil", StatusOK)
            /\ MetadataBackend' = [exists |-> TRUE, by |-> c]
    /\ UNCHANGED <<FileBackend, offFile>>

\* a Delete of the deferred cleanup was called on key and returned: the
\* handler returns when both have (wg.Wait)
Cleaned(c, key, fails) ==
    [requests EXCEPT ![c].deleted = @ \cup {key},
                     ![c].removed = IF fails THEN @ ELSE @ \cup {key},
                     ![c].pc = IF requests[c].deleted \cup {key} = BothKeys
                               THEN "done" ELSE "cleanup"]

\* the deferred cleanup, err # nil: s.FileBackend.Delete(ctx, f-id)
saveFile_DeleteFile(c, fails) ==
    /\ requests[c].pc = "cleanup"
    /\ filePrefix \notin requests[c].deleted
    /\ requests' = Cleaned(c, filePrefix, fails)
    /\ FileBackend' = IF fails THEN FileBackend ELSE NoUploadedFile
    /\ UNCHANGED <<MetadataBackend, offFile>>

\* the deferred cleanup, err # nil: s.MetadataBackend.Delete(ctx, fm-id)
saveFile_DeleteMetadata(c, fails) ==
    /\ requests[c].pc = "cleanup"
    /\ metaPrefix \notin requests[c].deleted
    /\ requests' = Cleaned(c, metaPrefix, fails)
    /\ MetadataBackend' = IF fails THEN MetadataBackend ELSE NoMetadata
    /\ UNCHANGED <<FileBackend, offFile>>

\* GET /f-{id}: m, err := s.MetadataBackend.Retrieve(ctx, fm-id)
retrieveFile_Metadata(c, fails) ==
    /\ requests[c].pc = "idle"
    /\ LET r == [requests EXCEPT ![c].handler = "retrieveFile"]
       IN requests' =
            IF fails
            THEN [r EXCEPT ![c].pc = "done", ![c].err = "Other", ![c].status = response_ErrUnexpected]
            ELSE IF ~MetadataBackend.exists
            THEN [r EXCEPT ![c].pc = "done", ![c].err = "NotFound", ![c].status = response_ErrNotFound]
            ELSE [r EXCEPT ![c].pc = "Retrieve"]
    /\ UNCHANGED <<FileBackend, MetadataBackend, offFile>>

\* fileReader, err := s.FileBackend.Retrieve(ctx, f-id), then the response
retrieveFile_File(c, fails) ==
    /\ requests[c].pc = "Retrieve"
    /\ requests' =
         IF fails THEN Answer(c, "Other", response_ErrUnexpected)
         ELSE IF ~FileBackend.exists THEN Answer(c, "NotFound", response_ErrUnexpected)
         ELSE Answer(c, "nil", StatusOK)
    /\ UNCHANGED <<FileBackend, MetadataBackend, offFile>>

UploadInit ==
    /\ backend = "file"
    /\ StoreInit /\ NoCalls /\ NoHeader /\ NoDecorator /\ NoRequest /\ NoUpload

UploadNext ==
    \/ \E c \in Requests, multipart \in BOOLEAN, form \in Forms, fails \in BOOLEAN :
          saveFile_Check(c, multipart, form, fails)
    \/ \E c \in Requests, fails \in Failures : saveFile_File(c, fails)
    \/ \E c \in Requests, fails \in BOOLEAN : saveFile_Metadata(c, fails)
    \/ \E c \in Requests, fails \in BOOLEAN : saveFile_DeleteFile(c, fails)
    \/ \E c \in Requests, fails \in BOOLEAN : saveFile_DeleteMetadata(c, fails)
    \/ \E c \in Requests, fails \in BOOLEAN : retrieveFile_Metadata(c, fails)
    \/ \E c \in Requests, fails \in BOOLEAN : retrieveFile_File(c, fails)

Upload == UploadInit /\ [][UploadNext]_vars

\* ------------------------------------------------------------------ claims
\* the step is a call of op (a call reads the clock, Tick alone moves it)
Called(op) == now' = now /\ res'.op = op

\* the record of i is live at tick t: saved and never deleted, with ttl = 0
\* or with a ttl that has not yet run out
Live(i, t) ==
    /\ saved[i].st = "saved"
    /\ (saved[i].ttl = 0 \/ t < saved[i].c + saved[i].ttl)

\* the backend under test holds nothing for i
Absent(i) ==
    CASE backend = "file" -> ~files[i].exists
      [] backend = "s3" -> ~objects[i].exists
      [] backend = "sqlite" -> ~rows[i].exists
      [] backend = "redis" -> ~keys[i].exists

\* C1: on every backend, a SaveTTL on an identifier whose record is live
\* (ttl = 0, or ttl > 0 not yet elapsed) fails with Conflict.
C1_LiveSaveConflicts ==
    [][(Called("SaveTTL") /\ Live(res'.id, now)) => res'.err = "Conflict"]_vars

\* C2: a SaveTTL that returns Conflict leaves the stored record unchanged, and
\* the Retrieve that follows it returns the payload of the original save.
C2_ConflictKeepsRecord ==
    [][/\ (Called("SaveTTL") /\ res'.err = "Conflict")
           => UNCHANGED <<files, objects, rows, keys>>
       /\ (/\ res.op = "SaveTTL" /\ res.err = "Conflict" /\ res.at = now
           /\ saved[res.id].st = "saved"
           /\ Called("Retrieve") /\ res'.id = res.id)
           => (res'.err = "nil" /\ res'.out = Bytes(saved[res.id].payload))]_vars

\* C3: a SaveTTL with ttl = 0 that returned success, followed by Retrieve of
\* the same identifier, gives back exactly the saved payload (for the
\* filesystem backend without the 32-byte header).
C3_RoundTrip ==
    [][(/\ res.op = "SaveTTL" /\ res.err = "nil"
        /\ saved[res.id].ttl = 0
        /\ Called("Retrieve") /\ res'.id = res.id)
        => (res'.err = "nil" /\ res'.out = Bytes(saved[res.id].payload))]_vars

C3_Witness ==
    /\ backend = "file"
    /\ res.op = "Retrieve" /\ res.err = "nil"
    /\ saved[res.id].st = "saved" /\ saved[res.id].ttl = 0
    /\ saved[res.id].payload # <<>>
    /\ res.out = Bytes(saved[res.id].payload)

\* C4: after SaveTTL(I, P, ttl) with ttl > 0 succeeded at time c, Retrieve(I)
\* before c + ttl returns P and Retrieve(I) after c + ttl fails with NotFound.
C4_ExpiresAtTTL ==
    [][(Called("Retrieve") /\ saved[res'.id].st = "saved" /\ saved[res'.id].ttl > 0)
        => /\ Live(res'.id, now)
               => (res'.err = "nil" /\ res'.out = Bytes(saved[res'.id].payload))
           /\ Elapsed(res'.id, now) => res'.err = "NotFound"]_vars

\* C5: once the ttl of the record has elapsed, a SaveTTL (whose context is not
\* cancelled) succeeds without Delete or Retrieve in between, and a Retrieve
\* that follows before the new ttl elapses returns exactly the new payload.
C5_SaveAfterExpiry ==
    [][/\ (Called("SaveTTL") /\ Elapsed(res'.id, now) /\ res'.err # "Canceled")
           => res'.err = "nil"
       /\ (/\ res.op = "SaveTTL" /\ res.err = "nil" /\ saved[res.id].over
           /\ Called("Retrieve") /\ res'.id = res.id /\ Live(res.id, now))
           => (res'.err = "nil" /\ res'.out = Bytes(saved[res.id].payload))]_vars

\* C6: in the relational backend SaveTTL fails with Conflict exactly when a
\* row exists with created_at set and expires_at unset or in the future (the
\* instant now = expires_at is left open); on an expired row it succeeds and
\* payload, created_at and expires_at take the values of the new write.
RowLive(i) ==
    /\ rows[i].exists /\ ~IsZero(rows[i].Created)
    /\ (IsZero(rows[i].Expires) \/ Before(TimeNow, rows[i].Expires))
RowExpired(i) ==
    rows[i].exists /\ ~IsZero(rows[i].Expires) /\ After(TimeNow, rows[i].Expires)
C6_SQLiteConflictRule ==
    [][(backend = "sqlite" /\ Called("SaveTTL"))
        => /\ RowLive(res'.id) => res'.err = "Conflict"
           /\ RowExpired(res'.id)
               => /\ res'.err = "nil"
                  /\ rows'[res'.id].Data = saved'[res'.id].payload
                  /\ rows'[res'.id].Created = TimeNow
                  /\ rows'[res'.id].Expires =
                        IF saved'[res'.id].ttl > 0
                        THEN Add(TimeNow, Duration(saved'[res'.id].ttl))
                        ELSE ZeroTime]_vars

\* C7: Retrieve of an identifier whose record has expired returns NotFound,
\* the error Retrieve gives for an identifier that was never saved.
C7_ExpiredLooksAbsent ==
    /\ (res.op = "Retrieve" /\ saved[res.id].st = "never" /\ Absent(res.id))
        => res.err = "NotFound"
    /\ (res.op = "Retrieve" /\ Elapsed(res.id, res.at) /\ res.err # "nil")
        => res.err = "NotFound"

\* C8: Delete of an identifier that has no record returns no error and
\* changes nothing.
C8_DeleteIdempotent ==
    [][(Called("Delete") /\ Absent(res'.id))
        => (res'.err = "nil" /\ UNCHANGED <<files, objects, rows, keys>>)]_vars

\* C9: after a Delete that returned no error, the next Retrieve of the same
\* identifier returns NotFound.
C9_DeleteThenRetrieve ==
    [][(/\ res.op = "Delete" /\ res.err = "nil"
        /\ Called("Retrieve") /\ res'.id = res.id)
        => res'.err = "NotFound"]_vars

C9_Witness ==
    /\ res.op = "Retrieve" /\ res.err = "NotFound"
    /\ saved[res.id].st = "deleted"

\* C10: a record saved with ttl = 0 never expires: until it is deleted, every
\* Retrieve returns its payload and every SaveTTL fails with Conflict.
C10_ZeroTTLNeverExpires ==
    [][(saved[res'.id].st = "saved" /\ saved[res'.id].ttl = 0)
        => /\ Called("Retrieve")
               => (res'.err = "nil" /\ res'.out = Bytes(saved[res'.id].payload))
           /\ Called("SaveTTL") => res'.err = "Conflict"]_vars

C10_Witness ==
    /\ res.op = "Retrieve" /\ res.err = "nil"
    /\ saved[res.id].st = "saved" /\ saved[res.id].ttl = 0
    /\ res.at = MaxTime /\ saved[res.id].c = 0
    /\ res.out = Bytes(saved[res.id].payload)

\* every concurrent call has returned
AllReturned == \A c \in Callers : calls[c].pc = "done"
Succeeded == {c \in Callers : calls[c].pc = "done" /\ calls[c].err = "nil"}

\* C11: networked KV backend, concurrent SaveTTL calls on one identifier that
\* has no live record: under every interleaving exactly one call returns
\* success, every other call returns Conflict, and the stored payload is the
\* payload of the successful call.
C11_OneWinner ==
    /\ (backend = "redis" /\ AllReturned)
        => /\ Cardinality(Succeeded) = 1
           /\ \A c \in Callers \ Succeeded : calls[c].err = "Conflict"
    /\ (backend = "redis")
        => /\ Cardinality(Succeeded) <= 1
           /\ \A c \in Succeeded : keys[TheId].exists /\ keys[TheId].val = PayloadOf(c)

C11_Witness ==
    /\ backend = "redis" /\ AllReturned
    /\ calls[NumCallers].err = "nil"
    /\ keys[TheId].val = PayloadOf(NumCallers)

\* C12: relational backend, concurrent SaveTTL transactions on one identifier
\* that has no live record never both return success, under every
\* interleaving of their reads and upserts, and once all have returned the
\* stored payload is the payload of the call that returned success.
C12_NeverBothSucceed ==
    (backend = "sqlite")
        => /\ Cardinality(Succeeded) <= 1
           /\ AllReturned
               => \A c \in Succeeded : rows[TheId].exists /\ rows[TheId].Data = PayloadOf(c)

C12_Witness ==
    /\ backend = "sqlite" /\ AllReturned
    /\ calls[1].err = "nil" /\ calls[2].err = "Other"
    /\ calls[2].d = NoRow
    /\ rows[TheId].Data = PayloadOf(1)

\* C13: filesystem backend: when Retrieve(I) finds the record of I expired
\* (the TTL header of its file says so) it reports NotFound, and once it has
\* returned the file of I is gone from the data directory.
C13_FileEvictsOnAccess ==
    [][(/\ backend = "file" /\ Called("Retrieve")
        /\ files[res'.id].exists
        /\ TTLExceeded(files[res'.id].bytes, TimeNow).ex)
        => (res'.err = "NotFound" /\ ~files'[res'.id].exists)]_vars

\* the metadata of the object of i says its ttl has run out
MetaExpired(i) ==
    /\ objects[i].exists
    /\ ParseDuration(objects[i].ttl) # 0
    /\ After(TimeNow, Add(ParseRFC3339(objects[i].created), ParseDuration(objects[i].ttl)))

\* C14: object-storage backend: when Retrieve(I) finds from the metadata that
\* the record has expired it reports NotFound and deletes the object, so a
\* later stat finds nothing; a record that has not expired is never removed
\* by Retrieve.
C14_S3EvictsOnAccess ==
    [][(backend = "s3" /\ Called("Retrieve") /\ objects[res'.id].exists)
        => /\ MetaExpired(res'.id)
               => (res'.err = "NotFound" /\ ~objects'[res'.id].exists)
           /\ ~MetaExpired(res'.id) => UNCHANGED objects]_vars

C16_CancelledSaveLeavesNothing ==
    [][(/\ backend = "file"
        /\ res.op = "SaveTTL" /\ res.err = "Canceled"
        /\ res'.id = res.id)
        => /\ Called("Retrieve") => res'.err = "NotFound"
           /\ Called("SaveTTL") => res'.err # "Conflict"]_vars

\* C18: TTLExceeded on a stored 32-byte header whose byte at index 0 is not
\* 0x00 returns the unrecognized-version error and gives no expired /
\* not-expired verdict.
C18_UnknownVersionRejected ==
    (verdict.read /\ verdict.v # 0) => verdict.err

\* C19: for a header written by WriteTTL(ttl) at time c and read back by
\* TTLExceeded at time now: the 8 little-endian bytes at offsets 16..23 decode
\* to the ttl written, the bytes at offsets 1..15 decode to c, and the
\* verdict is expired exactly when ttl # 0 and now > c + ttl.
C19_HeaderRoundTrip ==
    /\ (Len(hdr.bytes) = headerSize /\ hdr.v = 0)
        => /\ FromLittleEndian(Slice(hdr.bytes, ttlStart, ttlEnd)) = Duration(hdr.ttl)
           /\ ~UnmarshalBinary(Slice(hdr.bytes, createdStart, createdEnd)).err
           /\ UnmarshalBinary(Slice(hdr.bytes, createdStart, createdEnd)).t = TimeOf(hdr.c)
    /\ (verdict.read /\ verdict.v = 0)
        => /\ ~verdict.err
           /\ verdict.ex <=> (verdict.ttl # 0 /\ verdict.at > verdict.c + verdict.ttl)

C19_Witness ==
    /\ verdict.read /\ verdict.v = 0 /\ verdict.ex
    /\ verdict.c > 0 /\ verdict.ttl = MaxTTL /\ verdict.at = verdict.c + verdict.ttl + 1

\* C20: for each valid key length (16, 24, 32 bytes) and every plaintext P, a
\* SaveTTL(I, P, ttl) through the encryption decorator that the wrapped
\* backend accepted, followed by Retrieve(I) through the same decorator (the
\* wrapped backend returning the blob it was given), returns exactly P.
C20_DecoratorRoundTrip ==
    [][(/\ ret.op = "SaveTTL" /\ ret.err = "nil"
        /\ ret'.op = "Retrieve" /\ ret'.id = ret.id
        /\ aesgcm' = aesgcm /\ aesgcm.key.len \in KeySizes)
        => (ret'.err = "nil" /\ ret'.out = Bytes(ret.p))]_vars

C20_Witness ==
    /\ ~aesgcm.nil /\ aesgcm.key.len = 32
    /\ ret.op = "Retrieve" /\ ret.err = "nil"
    /\ Len(ret.out.data) = MaxLen
    /\ wrapped[ret.id].data = AESGCM_encrypt(aesgcm.key, SubSeq(wrapped[ret.id].data, 1, NonceSize), ret.out.data)
    /\ SubSeq(wrapped[ret.id].data, NonceSize + 1, NonceSize + MaxLen) # ret.out.data

\* C21: for each valid key length, when the blob stored by the decorator is
\* changed in a byte of the nonce, of the ciphertext body or of the tag, or is
\* shortened below nonce size plus tag size, Retrieve through the decorator
\* returns an error and no plaintext.
C21_ChangedBlobRejected ==
    [][(/\ ret.op = "SaveTTL" /\ ret.err = "nil"
        /\ wrapped[ret.id].data # ret.blob
        /\ ret'.op = "Retrieve" /\ ret'.id = ret.id
        /\ aesgcm' = aesgcm /\ aesgcm.key.len \in KeySizes)
        => (ret'.err # "nil" /\ ret'.out = Nil)]_vars

\* a Retrieve has failed on a blob of full length whose first ciphertext byte
\* was changed
C21_Witness ==
    /\ ~aesgcm.nil /\ aesgcm.key.len = 24
    /\ ret.op = "Retrieve" /\ ret.err = "Other" /\ ret.out = Nil
    /\ LET d == wrapped[ret.id].data
       IN /\ Len(d) = NonceSize + MaxLen + Overhead
          /\ \E p \in Payloads, dl \in Deltas :
                d = Manipulated(AESGCM_encrypt(aesgcm.key, SubSeq(d, 1, NonceSize), p),
                                NonceSize + 1, dl)

\* C22: NewAESGCMBackend returns a decorator exactly when the wrapped backend
\* is non-nil and the key is 16, 24 or 32 bytes long; for every other key
\* length (and for a nil backend) it returns an error and a nil decorator.
C22_ConstructorChecksKey ==
    [][\A hasBackend \in BOOLEAN, k \in Keys :
         NewAESGCMBackend(hasBackend, k) =>
            IF hasBackend /\ k.len \in {16, 24, 32}
            THEN ret'.err = "nil" /\ ~aesgcm'.nil /\ aesgcm'.key = k
            ELSE ret'.err # "nil" /\ aesgcm'.nil]_vars

\* a construction was refused and no decorator exists
C22_Witness ==
    /\ ret.op = "New" /\ ret.err # "nil"
    /\ aesgcm.nil

\* C23: SaveTTL(I, P, ttl) on the encryption decorator calls the wrapped
\* backend's SaveTTL exactly once, with the same identifier and the same ttl,
\* and with a blob of nonce, ciphertext and tag that is len(P) + nonce size +
\* tag size long; the wrapped backend does not receive the plaintext P.
C23_SaveDelegatesBlob ==
    ret.op = "SaveTTL" =>
        /\ Len(sent) = 1
        /\ sent[1].op = "SaveTTL"
        /\ sent[1].id = ret.id
        /\ sent[1].ttl = ret.ttl
        /\ Len(sent[1].data) = Len(ret.p) + NonceSize + Overhead
        /\ sent[1].data # ret.p
        /\ LET nonce == SubSeq(sent[1].data, 1, NonceSize)
               body == SubSeq(sent[1].data, NonceSize + 1, NonceSize + Len(ret.p))
               tag == SubSeq(sent[1].data, NonceSize + Len(ret.p) + 1, Len(sent[1].data))
           IN /\ nonce \in Nonces
              /\ tag = Tag(aesgcm.key, nonce, body)
              /\ ret.p # <<>> => body # ret.p

\* a payload of full length went through SaveTTL with a ttl and the wrapped
\* backend took the blob
C23_Witness ==
    /\ ret.op = "SaveTTL" /\ ret.err = "nil"
    /\ Len(ret.p) = MaxLen /\ ret.ttl = MaxTTL
    /\ wrapped[ret.id].exists /\ wrapped[ret.id].data = sent[1].data

\* C24: on every buffered backend, a Retrieve that returns an error (NotFound
\* after expiry or absence, or an error of the medium) returns a nil payload:
\* no stale or partial payload comes back together with an error.
C24_ErrorMeansNilPayload ==
    [][(Called("Retrieve") /\ backend \in BufferedBackends /\ res'.err # "nil")
        => res'.out = Nil]_vars

\* the relational backend has answered NotFound with nil for a row that is
\* still in the table, holding a payload, and has expired
C24_Witness ==
    /\ backend = "sqlite"
    /\ res.op = "Retrieve" /\ res.err = "NotFound" /\ res.out = Nil
    /\ rows[res.id].exists /\ rows[res.id].Data # <<>>
    /\ res.at = now

C26_WrittenIsPayloadLength ==
    [][/\ (Called("SaveTTL") /\ backend \in {"file", "s3"} /\ res'.err = "nil")
           => res'.n = Len(saved'[res'.id].payload)
       /\ (/\ res.op = "SaveTTL" /\ res.err = "nil" /\ backend \in {"file", "s3"}
           /\ Called("Retrieve") /\ res'.id = res.id /\ res'.err = "nil")
           => Len(res'.out.data) = res.n]_vars

\* the filesystem backend has handed back a payload of full length from a
\* file that holds header and payload
C26_Witness ==
    /\ backend = "file"
    /\ res.op = "Retrieve" /\ res.err = "nil"
    /\ Len(res.out.data) = MaxLen
    /\ res.out.data = saved[res.id].payload
    /\ Len(files[res.id].bytes) = headerSize + MaxLen

\* C27: in the filesystem backend the conflict check is only best-effort
\* atomic: a SaveTTL that has passed its stat / TTL check goes on to open the
\* file and returns success whatever another SaveTTL on the same identifier
\* does meanwhile, so when two calls both pass the check before either opens
\* the file, both return success and neither receives Conflict.
C27_CheckThenActRace ==
    [][\A c \in RaceCallers :
          (calls[c].pc \in {"Open", "Copy"} /\ calls'[c].pc = "done")
             => calls'[c].err = "nil"]_vars

\* both concurrent calls have returned success for the one identifier
C27_Witness ==
    /\ \A c \in RaceCallers : calls[c].pc = "done" /\ calls[c].err = "nil" /\ calls[c].n = 1
    /\ files[TheId].exists

\* C28: in the filesystem backend Retrieve leaks no open file handle: on
\* every path on which it returns an error (record expired, TTL header
\* unreadable) the handle it opened is closed before it returns, and only on
\* success is the open handle handed to the caller, positioned just after the
\* 32-byte header.
C28_RetrieveClosesOnError ==
    [][(Called("Retrieve") /\ backend = "file") =>
          /\ res'.err # "nil" => res'.h # "open"
          /\ res'.err = "nil" =>
                /\ res'.h = "open"
                /\ res'.out = Bytes(SubSeq(files[res'.id].bytes, headerSize + 1,
                                           Len(files[res'.id].bytes)))]_vars

\* C29: in the object-storage backend the creation time written to the
\* object metadata does not make a record expire early: after a save at
\* time c with ttl > 0 (a ttl below one second and a c off the whole second
\* included), at every time strictly before c + ttl a Retrieve succeeds and a
\* SaveTTL returns Conflict.
C29_S3NoEarlyExpiry ==
    [][\A i \in Ids :
          (/\ backend = "s3"
           /\ saved[i].st = "saved" /\ saved[i].ttl > 0
           /\ now < saved[i].c + saved[i].ttl
           /\ res'.id = i)
          => /\ Called("Retrieve") => res'.err = "nil"
             /\ Called("SaveTTL") => res'.err = "Conflict"]_vars

\* C30: under every interleaving of concurrent SaveTTL and Retrieve calls on
\* one identifier, a Retrieve that succeeds yields, byte for byte, the
\* complete payload of one single SaveTTL call that returned success (here:
\* a call that has copied its whole source without an error): never a
\* prefix, never the empty payload of an unfinished save, never a mixture.
C30_RetrieveYieldsWholeSave ==
    [][(Called("Retrieve") /\ res'.err = "nil") =>
          \E c \in Callers :
             /\ calls[c].pc \in {"Copy", "done"} /\ calls[c].err = "nil"
             /\ calls[c].pos = Len(calls[c].src.p)
             /\ res'.out = Bytes(calls[c].src.p)]_vars

\* C31: eviction on access never removes a live record: in the filesystem
\* backend, when a Retrieve(I) that observed an expired header and a
\* concurrent SaveTTL(I, P2, ttl2) that overwrote the expired record with
\* success have both returned, the record that SaveTTL wrote is present and
\* retrievable.
C31_EvictionSparesLiveRecord ==
    (/\ calls[Saver].pc = "done" /\ calls[Saver].err = "nil"
     /\ calls[Evictor].pc = "done" /\ calls[Evictor].err = "Expired")
    => /\ files[TheId].exists
       /\ ~TTLExceeded(files[TheId].bytes, TimeNow).err
       /\ ~TTLExceeded(files[TheId].bytes, TimeNow).ex
       /\ AfterHeader(files[TheId].bytes, headerSize) = PayloadOf(Saver)

\* C32: in every backend that evaluates expiry itself (filesystem, object
\* storage, relational) SaveTTL and Retrieve agree at every instant on
\* whether the record of I is live: a SaveTTL(I, ...) made at the instant at
\* which Retrieve(I) has just answered returns Conflict exactly when that
\* Retrieve succeeded, the boundary instant created_at + ttl included; at no
\* instant is a record both retrievable and overwritable.
C32_SaveAndRetrieveAgree ==
    [][(/\ backend \in {"file", "s3", "sqlite"}
        /\ res.op = "Retrieve" /\ res.at = now
        /\ Called("SaveTTL") /\ res'.id = res.id)
        => (res'.err = "Conflict" <=> res.err = "nil")]_vars

C34_FailedUploadCleansUp ==
    \A c \in Requests :
        (requests[c].handler = "saveFile" /\ requests[c].pc = "done") =>
            /\ (requests[c].attempted /\ requests[c].err # "nil")
                  => requests[c].deleted = BothKeys
            /\ (requests[c].deleted = BothKeys /\ requests[c].removed = BothKeys
                    /\ \A d \in Requests \ {c} : requests[d].pc = "idle")
                  => (~FileBackend.exists /\ ~MetadataBackend.exists)
            /\ (requests[c].status = StatusOK) => requests[c].deleted = {}

\* a request stored the file, the metadata backend failed, and the handler
\* returned after both Deletes had succeeded
C34_Witness ==
    \E c \in Requests :
        /\ requests[c].handler = "saveFile" /\ requests[c].pc = "done"
        /\ requests[c].attempted
        /\ requests[c].err = "Other" /\ requests[c].status = response_ErrUnexpected
        /\ requests[c].removed = BothKeys
        /\ \A d \in Requests \ {c} : requests[d].pc = "idle"
        /\ ~FileBackend.exists /\ ~MetadataBackend.exists

\* C35: in the file service, a saveFile request that answers with success
\* leaves both the file record (f-id) and the metadata record (fm-id)
\* present, under every interleaving with other saveFile requests for the
\* same id, those that fail with a conflict and run their cleanup included;
\* a later retrieveFile never finds the metadata without the file.
C35_AnsweredUploadStays ==
    (\E c \in Requests : /\ requests[c].handler = "saveFile"
                         /\ requests[c].pc = "done"
                         /\ requests[c].status = StatusOK)
        => /\ FileBackend.exists /\ MetadataBackend.exists
           /\ \A d \in Requests :
                 ~(/\ requests[d].handler = "retrieveFile"
                   /\ requests[d].pc = "done"
                   /\ requests[d].err = "NotFound"
                   /\ requests[d].status = response_ErrUnexpected)

\* C36: the encryption decorator preserves the error classification of the
\* wrapped backend: a Conflict returned by the wrapped SaveTTL is what the
\* decorator's SaveTTL returns, and a NotFound returned by the wrapped
\* Retrieve is returned by the decorator's Retrieve as an error that is
\* still recognised as NotFound, with no payload (nothing is decrypted).
C36_ClassificationPreserved ==
    [][/\ (ret'.op = "SaveTTL"
              /\ Wrapped_SaveTTL(ret'.id, ret'.blob, ret'.ttl).err = "Conflict")
          => (ret'.chain = Sentinel("Conflict") /\ wrapped' = wrapped)
       /\ (ret'.op = "Retrieve" /\ Wrapped_Retrieve(ret'.id).err = "NotFound")
          => /\ errors_Is(ret'.chain, "NotFound")
             /\ ~errors_Is(ret'.chain, "decrypting")
             /\ ret'.out = Nil]_vars

\* the wrapped backend held nothing for the identifier: Retrieve returned
\* its NotFound wrapped in a message, and no payload
C36_Witness ==
    /\ ret.op = "Retrieve" /\ ~wrapped[ret.id].exists
    /\ Len(ret.chain) = 2 /\ errors_Is(ret.chain, "NotFound")
    /\ ret.out = Nil
    /\ sent = <<Sent("Retrieve", ret.id, <<>>, 0)>>

====
